---- MODULE Spec2Model ----
(***************************************************************************)
(* Shop wallet, withdrawal lifecycle and order fulfilment of swahili_api.  *)
(*                                                                         *)
(* The persistent state is the MongoDB collections (shops, withdrawal      *)
(* requests, orders, product stock).  Every controller is an async         *)
(* function: the code between two awaits runs atomically on the event      *)
(* loop, and other requests run while a handler awaits.  Each handler is   *)
(* therefore a sequence of steps, one per database round trip; a handler   *)
(* in flight keeps the documents it has loaded (its in-memory mongoose     *)
(* documents) in its call record.                                          *)
(*                                                                         *)
(* document.save() of a loaded mongoose document sends                     *)
(* updateOne({_id}, {$set: <modified paths>}): it writes the values the    *)
(* handler computed from the document it loaded, only for the paths the    *)
(* handler assigned, and without any version check (the schemas set no     *)
(* optimisticConcurrency option).                                          *)
(***************************************************************************)
EXTENDS Integers, Sequences, FiniteSets, TLC

\* ---------------------------------------------------------------- bounds
MaxInFlight == 2        \* handlers that may be in flight at the same time
MaxCalls == 2           \* requests that get past their checks, when
                        \* requests overlap
MaxSeqCalls == 2        \* requests that get past their checks, when
                        \* they come one at a time
MaxListCalls == 3       \* requests to the handlers of the withdrawal routes
                        \* that get past their checks, one at a time
MaxPayCalls == 2        \* requests to the handlers that write the order
                        \* that get past their checks
MaxWithdrawals == 2     \* withdrawal request rows that may be created
MaxAmount == 2          \* largest amount a caller asks to withdraw

\* ------------------------------------------------------- fixed universe
Users == {"seller", "seller2", "admin", "buyer"}
Shops == {"s1", "s2"}
Orders == {"o1"}
None == "none"

userType == [u \in Users |->
               CASE u = "admin" -> "ADMIN"
                 [] u \in {"seller", "seller2"} -> "SELLER"
                 [] OTHER -> "BUYER"]

\* the owner field of each shop document, once the shop has been created
shopOwner == [s \in Shops |-> IF s = "s1" THEN "seller" ELSE "seller2"]

\* the order document as createOrder stores it: one line, subtotal = total
orderShop == [o \in Orders |-> "s1"]
orderQuantity == [o \in Orders |-> 1]
orderAmounts == [o \in Orders |-> [subtotal |-> 2, total |-> 2]]

\* the order was paid by mobile money: createOrder stored the gateway's
\* order_id as paymentDetails.transactionId
orderTransactionId == [o \in Orders |-> "t1"]

\* Order.findOne({ 'paymentDetails.transactionId': order_id })
OrderOfTransaction(t) ==
    IF \E o \in Orders : orderTransactionId[o] = t
    THEN CHOOSE o \in Orders : orderTransactionId[o] = t
    ELSE None

Calls == 1..MaxInFlight
WithdrawalIds == 1..MaxWithdrawals
\* req.params.orderId: the orders, and an id that no order has
OrderIds == Orders \cup {"o0"}
Amounts == -1..MaxAmount

VARIABLES
    shops,        \* created shop -> [currentBalance, lockedBalance,
                  \*                  totalRevenue, status]
    withdrawals,  \* sequence of WithdrawalRequest rows, the id is the index
    orders,       \* order -> [status, statusHistory, paymentStatus]
    stock,        \* order -> stock of the product of the order's line
    calls,        \* call slot -> the handler invocation running in it
    lastResponse, \* the response sent most recently
    started       \* requests that got past their checks

vars == <<shops, withdrawals, orders, stock, calls, lastResponse, started>>

\* --------------------------------------------------------------- helpers
\* Shop.findOne({ owner: userId })
ShopOwnedBy(u) ==
    IF \E s \in DOMAIN shops : shopOwner[s] = u
    THEN CHOOSE s \in DOMAIN shops : shopOwner[s] = u
    ELSE None

Idle == [pc |-> "idle"]

Free(c) == calls[c].pc = "idle"

\* requests are handed to the lowest free slot (slots are interchangeable)
NextFree(c) == Free(c) /\ \A d \in Calls : d < c => ~Free(d)

\* mongoose document.save(): $set of the paths whose value the handler
\* changed on the loaded document, applied to the stored document
SaveDoc(stored, loaded, doc) ==
    [f \in DOMAIN stored |-> IF doc[f] # loaded[f] THEN doc[f] ELSE stored[f]]

\* a shop document with the defaults of ShopSchema
NoDoc == [currentBalance |-> 0, lockedBalance |-> 0, totalRevenue |-> 0,
          status |-> "active"]

\* paymentDetails.details of a request body: absent, an object that lacks
\* fields of its variant (accountNumber, bankName, provider, ...), or an
\* object with every field of its variant
NoDetails == "none"
PartialDetails == "partial"
FullDetails == "full"

NoPaymentDetails == [present |-> FALSE, type |-> "", details |-> NoDetails]

\* the request bodies' paymentDetails: absent, without type, without
\* details, a variant of the schema with all its fields, and a type outside
\* the schema's enum
PaymentDetailsInputs ==
    {NoPaymentDetails,
     [present |-> TRUE, type |-> "", details |-> FullDetails],
     [present |-> TRUE, type |-> "bank", details |-> NoDetails],
     [present |-> TRUE, type |-> "mobile_money", details |-> FullDetails],
     [present |-> TRUE, type |-> "paypal", details |-> FullDetails]}

\* a variant of the schema with only some of its fields
PartialPaymentDetailsInputs ==
    {[present |-> TRUE, type |-> "bank", details |-> PartialDetails]}

\* req.body.adminNote of a decision: a string, or a value that the schema's
\* String type cannot cast (an object)
AdminNoteInputs == {"text"}
UncastableAdminNoteInputs == {"object"}

\* res.status(code).json(...): the handler, the status code, the error
\* string, and of the data what identifies the effect: the request row
\* (created or addressed), the amount asked for and the wallet the handler
\* had loaded when it succeeded in reserving
Response(kind, code, error) ==
    [kind |-> kind, code |-> code, error |-> error,
     id |-> 0, amount |-> 0, loaded |-> NoDoc, totalRecords |-> 0]

\* what the checks of a handler give for a request that they let through
Passed(kind) == Response(kind, 0, None)

Respond(c, res) ==
    /\ calls' = [calls EXCEPT ![c] = Idle]
    /\ lastResponse' = res

\* ------------------------------------------------------ requestWithdrawal
\* if (!amount || amount <= 0)
InvalidAmount(amount) == amount = 0 \/ amount <= 0

\* if (!paymentDetails || !paymentDetails.type || !paymentDetails.details)
InvalidPaymentDetails(pd) ==
    ~pd.present \/ pd.type = "" \/ pd.details = NoDetails

\* a funds check that counts the locked funds as available
InsufficientFundsOfTotal(doc, amount) ==
    doc.currentBalance + doc.lockedBalance < amount

\* if (shop.wallet.currentBalance < amount)
InsufficientFunds(doc, amount) == doc.currentBalance < amount

\* a reserve that forgets to lock what it takes from the balance
ReserveFundsNoLock(doc, amount) ==
    [doc EXCEPT !.currentBalance = @ - amount]

\* shop.wallet.currentBalance -= amount; shop.wallet.lockedBalance += amount
ReserveFunds(doc, amount) ==
    [doc EXCEPT !.currentBalance = @ - amount, !.lockedBalance = @ + amount]

\* withdrawalRequestSchema validation run by withdrawal.save()
WithdrawalRequestValid(row) ==
    /\ row.shop # None
    /\ row.user # None
    /\ row.amount >= 1
    /\ row.status \in {"pending", "approved", "rejected"}
    /\ row.type \in {"bank", "mobile_money"}
    /\ row.adminNote # "object"

\* rows created so far plus rows that handlers in flight may still create
WithdrawalsClaimed ==
    Len(withdrawals)
      + Cardinality({d \in Calls : calls[d].pc \in {"rw_shop", "rw_row"}})

\* lines 836-874: input validation, Shop.findOne({ owner: userId }), shop
\* found?, funds check on the loaded document
requestWithdrawal_findShop(c, u, amount, pd) ==
    LET shop == ShopOwnedBy(u)
    IN  /\ NextFree(c)
        /\ IF InvalidAmount(amount)
           THEN Respond(c, Response("requestWithdrawal", 400,
                                    "Invalid amount"))
           ELSE IF InvalidPaymentDetails(pd)
           THEN Respond(c, Response("requestWithdrawal", 400,
                                    "Invalid payment details"))
           ELSE IF shop = None
           THEN Respond(c, Response("requestWithdrawal", 404,
                                    "Shop not found for this user"))
           ELSE IF InsufficientFunds(shops[shop], amount)
           THEN Respond(c, [Response("requestWithdrawal", 400,
                                     "Insufficient funds")
                              EXCEPT !.amount = amount])
           ELSE /\ WithdrawalsClaimed < MaxWithdrawals
                /\ calls' = [calls EXCEPT ![c] =
                     [pc |-> "rw_shop", user |-> u, amount |-> amount,
                      type |-> pd.type, details |-> pd.details,
                      shop |-> shop,
                      shopDoc |-> shops[shop]]]
                /\ UNCHANGED lastResponse
        /\ UNCHANGED <<shops, withdrawals, orders, stock>>

\* lines 876-880: reserve on the loaded document, shop.save()
requestWithdrawal_saveShop(c) ==
    LET call == calls[c]
        doc == ReserveFunds(call.shopDoc, call.amount)
    IN  /\ call.pc = "rw_shop"
        /\ shops' = [shops EXCEPT ![call.shop] =
                         SaveDoc(@, call.shopDoc, doc)]
        /\ calls' = [calls EXCEPT ![c].pc = "rw_row"]
        /\ UNCHANGED <<withdrawals, orders, stock, lastResponse>>

\* lines 882-907: new WithdrawalRequest({...}), withdrawal.save(), response;
\* a validation error of save() is caught and answered with 500
requestWithdrawal_saveRequest(c) ==
    LET call == calls[c]
        row == [shop |-> call.shop, user |-> call.user,
                amount |-> call.amount, status |-> "pending",
                type |-> call.type, details |-> call.details,
                adminNote |-> None,
                processedBy |-> None, processedAt |-> FALSE]
    IN  /\ call.pc = "rw_row"
        /\ IF WithdrawalRequestValid(row)
           THEN /\ withdrawals' = Append(withdrawals, row)
                /\ Respond(c, [Response("requestWithdrawal", 201, None)
                                 EXCEPT !.id = Len(withdrawals) + 1,
                                        !.amount = call.amount,
                                        !.loaded = call.shopDoc])
           ELSE /\ Respond(c, [Response("requestWithdrawal", 500,
                        "Server error while processing withdrawal request")
                                 EXCEPT !.amount = call.amount,
                                        !.loaded = call.shopDoc])
                /\ UNCHANGED withdrawals
        /\ UNCHANGED <<shops, orders, stock>>

\* ------------------------------------------------- updateWithdrawalStatus
\* a check that lets an approved request be decided again
AlreadyProcessedOnlyRejected(row) == row.status = "rejected"

\* if (withdrawal.status !== 'pending')
AlreadyProcessed(row) == row.status # "pending"

\* a burn that takes the amount from the available balance
BurnFundsFromBalance(doc, amount) ==
    [doc EXCEPT !.currentBalance = @ - amount]

\* approved: shop.wallet.lockedBalance -= withdrawal.amount
BurnFunds(doc, amount) == [doc EXCEPT !.lockedBalance = @ - amount]

\* a release that unlocks the amount without giving it back
ReleaseFundsNoRefund(doc, amount) ==
    [doc EXCEPT !.lockedBalance = @ - amount]

\* rejected: lockedBalance -= withdrawal.amount; currentBalance += amount
ReleaseFunds(doc, amount) ==
    [doc EXCEPT !.lockedBalance = @ - amount, !.currentBalance = @ + amount]

\* a decision that stamps the deciding user on the field user
ProcessRequestAsUser(row, status, adminId, adminNote) ==
    [row EXCEPT !.status = status, !.user = adminId,
                !.processedAt = TRUE, !.adminNote = adminNote]

\* withdrawal.status = status; processedBy = adminId; processedAt = new
\* Date(); adminNote = adminNote
ProcessRequest(row, status, adminId, adminNote) ==
    [row EXCEPT !.status = status, !.processedBy = adminId,
                !.processedAt = TRUE, !.adminNote = adminNote]

UpdateWithdrawalResponse(call, code, error) ==
    [Response("updateWithdrawalStatus", code, error) EXCEPT !.id = call.id]

\* lines 962-977: status value check, WithdrawalRequest.findById(id),
\* found?, already processed?
\* the answer of the checks of lines 966-977 to a request that they refuse
updateWithdrawalStatus_refusal(id, status) ==
    IF status \notin {"approved", "rejected"}
    THEN Response("updateWithdrawalStatus", 400, "Invalid status")
    ELSE IF id > Len(withdrawals)
    THEN Response("updateWithdrawalStatus", 404,
                  "Withdrawal request not found")
    ELSE IF AlreadyProcessed(withdrawals[id])
    THEN [Response("updateWithdrawalStatus", 400,
                   "Request is already processed") EXCEPT !.id = id]
    ELSE Passed("updateWithdrawalStatus")

updateWithdrawalStatus_findRequest(c, u, id, status, adminNote) ==
    LET refusal == updateWithdrawalStatus_refusal(id, status)
    IN
    /\ NextFree(c)
    /\ IF refusal # Passed("updateWithdrawalStatus")
       THEN Respond(c, refusal)
       ELSE /\ calls' = [calls EXCEPT ![c] =
                 [pc |-> "uw_shop", user |-> u, id |-> id, status |-> status,
                  adminNote |-> adminNote,
                  row |-> withdrawals[id], shopDoc |-> NoDoc,
                  shopSaved |-> FALSE, rowSaved |-> FALSE,
                  failed |-> FALSE]]
            /\ UNCHANGED lastResponse
    /\ UNCHANGED <<shops, withdrawals, orders, stock>>

\* line 979: Shop.findById(withdrawal.shop)
updateWithdrawalStatus_findShop(c) ==
    LET call == calls[c]
    IN  /\ call.pc = "uw_shop"
        /\ calls' = [calls EXCEPT ![c].pc = "uw_save",
                                  ![c].shopDoc = shops[call.row.shop]]
        /\ UNCHANGED <<shops, withdrawals, orders, stock, lastResponse>>

\* the two saves of Promise.all([shop.save(), withdrawal.save()]) are both
\* started and reach the database in either order; a save that fails does
\* not stop the other one.  The handler is followed until both have
\* returned: it answers 200, or 500 from the catch when a save has failed
UpdateWithdrawalAfterSave(c, call) ==
    IF call.shopSaved /\ call.rowSaved
    THEN IF call.failed
         THEN Respond(c, UpdateWithdrawalResponse(call, 500,
                           "Server error updating withdrawal status"))
         ELSE Respond(c, UpdateWithdrawalResponse(call, 200, None))
    ELSE /\ calls' = [calls EXCEPT ![c] = call]
         /\ UNCHANGED lastResponse

\* lines 984-986, 994-997, shop.save() of lines 992 and 1004
updateWithdrawalStatus_saveShop(c) ==
    LET call == calls[c]
        doc == IF call.status = "approved"
               THEN BurnFunds(call.shopDoc, call.row.amount)
               ELSE ReleaseFunds(call.shopDoc, call.row.amount)
    IN  /\ call.pc = "uw_save"
        /\ ~call.shopSaved
        /\ shops' = [shops EXCEPT ![call.row.shop] =
                         SaveDoc(@, call.shopDoc, doc)]
        /\ UpdateWithdrawalAfterSave(c, [call EXCEPT !.shopSaved = TRUE])
        /\ UNCHANGED <<withdrawals, orders, stock>>

\* lines 987-991, 999-1003, withdrawal.save() of lines 992 and 1004; save()
\* validates the document first and writes nothing when it is invalid
updateWithdrawalStatus_saveRequest(c) ==
    LET call == calls[c]
        row == ProcessRequest(call.row, call.status, call.user,
                              call.adminNote)
    IN  /\ call.pc = "uw_save"
        /\ ~call.rowSaved
        /\ IF WithdrawalRequestValid(row)
           THEN /\ withdrawals' = [withdrawals EXCEPT ![call.id] =
                                      SaveDoc(@, call.row, row)]
                /\ UpdateWithdrawalAfterSave(c,
                      [call EXCEPT !.rowSaved = TRUE])
           ELSE /\ UNCHANGED withdrawals
                /\ UpdateWithdrawalAfterSave(c,
                      [call EXCEPT !.rowSaved = TRUE, !.failed = TRUE])
        /\ UNCHANGED <<shops, orders, stock>>

\* ------------------------------------------------------ updateOrderStatus
\* a flow that lets a pending order be shipped without being processed
ORDER_STATUS_FLOW_SkipProcessing ==
    [pending_payment |-> {"pending", "cancelled"},
     pending |-> {"processing", "shipped", "cancelled"},
     processing |-> {"shipped", "cancelled"},
     shipped |-> {"delivered", "cancelled"},
     delivered |-> {},
     cancelled |-> {}]

ORDER_STATUS_FLOW ==
    [pending_payment |-> {"pending", "cancelled"},
     pending |-> {"processing", "cancelled"},
     processing |-> {"shipped", "cancelled"},
     shipped |-> {"delivered", "cancelled"},
     delivered |-> {},
     cancelled |-> {}]

isValidStatusTransition(currentStatus, newStatus) ==
    LET allowedTransitions == IF currentStatus \in DOMAIN ORDER_STATUS_FLOW
                              THEN ORDER_STATUS_FLOW[currentStatus] ELSE {}
    IN  newStatus \in allowedTransitions

\* const validStatuses = [...]
validStatuses == {"pending", "processing", "shipped", "delivered", "cancelled"}

\* the status values a caller may send: the valid ones and one that is not
StatusInputs == validStatuses \cup {"pending_payment"}

\* const orderRevenue = order.amounts.subtotal || order.amounts.total
orderRevenue(o) ==
    IF orderAmounts[o].subtotal # 0 THEN orderAmounts[o].subtotal
    ELSE orderAmounts[o].total

\* a credit that forgets the revenue metric
CreditFundsNoMetric(doc, revenue) ==
    [doc EXCEPT !.currentBalance = @ + revenue]

\* shop.wallet.currentBalance += orderRevenue; metrics.totalRevenue += ...
CreditFunds(doc, revenue) ==
    [doc EXCEPT !.currentBalance = @ + revenue, !.totalRevenue = @ + revenue]

\* lines 332-397: status value check, Order.findById(orderId),
\* authorization and transition check on the loaded order
\* checks that let every caller through
updateOrderStatus_refusalNoAuth(u, o, status) ==
    IF status \notin validStatuses
    THEN Response("updateOrderStatus", 400, "Invalid status value")
    ELSE IF o \notin DOMAIN orders
    THEN Response("updateOrderStatus", 404, "Order not found")
    ELSE IF ~isValidStatusTransition(orders[o].status, status)
    THEN Response("updateOrderStatus", 400, "Cannot change status")
    ELSE Passed("updateOrderStatus")

\* the answer of the checks of lines 335-383 to a request that they refuse
updateOrderStatus_refusal(u, o, status) ==
    IF status \notin validStatuses
    THEN Response("updateOrderStatus", 400, "Invalid status value")
    ELSE IF o \notin DOMAIN orders
    THEN Response("updateOrderStatus", 404, "Order not found")
    ELSE IF shopOwner[orderShop[o]] # u /\ userType[u] # "ADMIN"
    THEN Response("updateOrderStatus", 403,
                  "Not authorized to update this order")
    ELSE IF ~isValidStatusTransition(orders[o].status, status)
    THEN Response("updateOrderStatus", 400, "Cannot change status")
    ELSE Passed("updateOrderStatus")

updateOrderStatus_findOrder(c, u, o, status) ==
    LET refusal == updateOrderStatus_refusal(u, o, status)
    IN  /\ NextFree(c)
        /\ IF refusal # Passed("updateOrderStatus")
           THEN Respond(c, refusal)
           ELSE /\ calls' = [calls EXCEPT ![c] =
                     [pc |-> "uo_effect", user |-> u, order |-> o,
                      status |-> status, orderDoc |-> orders[o],
                      shopDoc |-> NoDoc]]
                /\ UNCHANGED lastResponse
        /\ UNCHANGED <<shops, withdrawals, orders, stock>>

\* lines 399-412: a cancellation restocks the order's line with $inc, a
\* delivery loads the shop with Shop.findById, any other target goes on
updateOrderStatus_sideEffect(c) ==
    LET call == calls[c]
        o == call.order
    IN  /\ call.pc = "uo_effect"
        /\ IF call.status = "cancelled"
           THEN /\ stock' = [stock EXCEPT ![o] = @ + orderQuantity[o]]
                /\ calls' = [calls EXCEPT ![c].pc = "uo_update"]
           ELSE IF call.status = "delivered"
                   /\ call.orderDoc.status # "delivered"
           THEN /\ calls' = [calls EXCEPT ![c].pc = "uo_credit",
                                 ![c].shopDoc = shops[orderShop[o]]]
                /\ UNCHANGED stock
           ELSE /\ calls' = [calls EXCEPT ![c].pc = "uo_update"]
                /\ UNCHANGED stock
        /\ UNCHANGED <<shops, withdrawals, orders, lastResponse>>

\* lines 413-424: credit the wallet and the revenue metric, shop.save()
updateOrderStatus_creditShop(c) ==
    LET call == calls[c]
        doc == CreditFunds(call.shopDoc, orderRevenue(call.order))
    IN  /\ call.pc = "uo_credit"
        /\ shops' = [shops EXCEPT ![orderShop[call.order]] =
                         SaveDoc(@, call.shopDoc, doc)]
        /\ calls' = [calls EXCEPT ![c].pc = "uo_update"]
        /\ UNCHANGED <<withdrawals, orders, stock, lastResponse>>

\* what a dispatch by notificationService (createPersistentNotification,
\* sendPushNotification) comes to: the returned promise fulfils or rejects
NotificationOutcomes == {"sent", "failed"}

\* lines 436-441: the statuses that have an entry in statusMessages
statusMessages == {"processing", "shipped", "delivered", "cancelled"}

\* lines 443-475: the dispatch is awaited inside the handler's try, so a
\* rejection reaches the catch of line 468 and the answer is 500
updateOrderStatus_response(status, dispatch) ==
    IF status \in statusMessages /\ dispatch = "failed"
    THEN Response("updateOrderStatus", 500, "Notification failed")
    ELSE Response("updateOrderStatus", 200, None)

\* lines 385-397 and 427-475: Order.findByIdAndUpdate(orderId, statusUpdate),
\* the notification of the customer, the answer
updateOrderStatus_updateOrder(c) ==
    LET call == calls[c]
        statusUpdate ==
            [status |-> call.status,
             statusHistory |-> Append(call.orderDoc.statusHistory,
                                  [status |-> call.orderDoc.status,
                                   updatedBy |-> call.user])]
    IN  /\ call.pc = "uo_update"
        /\ orders' = [orders EXCEPT ![call.order] =
                          [f \in DOMAIN @ |->
                              IF f \in DOMAIN statusUpdate
                              THEN statusUpdate[f] ELSE @[f]]]
        /\ \E dispatch \in NotificationOutcomes :
              Respond(c, updateOrderStatus_response(call.status, dispatch))
        /\ UNCHANGED <<shops, withdrawals, stock>>

\* --------------------------------------------------------- getWithdrawals
\* the values of req.query.status, req.query.page and req.query.limit
StatusFilterInputs == {None, "pending", "approved", "rejected"}

PageInputs == {1, 2}

LimitInputs == {1, 10}

\* a query that forgets the shop of the caller
getWithdrawals_queryAllShops(u, status) ==
    {id \in DOMAIN withdrawals :
        status # None => withdrawals[id].status = status}

\* lines 915-928: query.status when a status is given, query.shop for a
\* caller who is not an ADMIN; the ids of the rows that match the query
getWithdrawals_query(u, status) ==
    {id \in DOMAIN withdrawals :
        /\ status # None => withdrawals[id].status = status
        /\ userType[u] # "ADMIN" => withdrawals[id].shop = ShopOwnedBy(u)}

\* .sort({ createdAt: -1 }): the rows are created in the order of their ids
RECURSIVE NewestFirst(_)
NewestFirst(ids) ==
    IF ids = {} THEN << >>
    ELSE LET newest == CHOOSE id \in ids : \A other \in ids : other <= id
         IN  <<newest>> \o NewestFirst(ids \ {newest})

\* .skip((page - 1) * limit).limit(parseInt(limit))
PageOf(rows, page, limit) ==
    LET skip == (page - 1) * limit
        last == IF skip + limit < Len(rows) THEN skip + limit ELSE Len(rows)
    IN  [i \in 1..(last - skip) |-> rows[skip + i]]

\* lines 910-958: the answer, as the ids of data.withdrawals and
\* data.pagination.totalRecords
getWithdrawals_data(u, status, page, limit) ==
    [withdrawals |-> PageOf(NewestFirst(getWithdrawals_query(u, status)),
                            page, limit),
     totalRecords |-> Cardinality(getWithdrawals_query(u, status))]

\* lines 910-958: Shop.findOne for a caller who is not an ADMIN,
\* WithdrawalRequest.find and countDocuments
getWithdrawals(c, u, status, page, limit) ==
    /\ NextFree(c)
    /\ IF userType[u] # "ADMIN" /\ ShopOwnedBy(u) = None
       THEN Respond(c, Response("getWithdrawals", 404, "Shop not found"))
       ELSE Respond(c, [Response("getWithdrawals", 200, None)
                          EXCEPT !.totalRecords =
                             getWithdrawals_data(u, status, page,
                                                 limit).totalRecords])
    /\ UNCHANGED <<shops, withdrawals, orders, stock>>

\* ------------------------------------------------------- shop management
\* req.body.wallet of createShop and updateShop: absent, or an object
NoWallet == [present |-> FALSE, currentBalance |-> 0, lockedBalance |-> 0]

WalletInputs ==
    {NoWallet, [present |-> TRUE, currentBalance |-> 1, lockedBalance |-> 0]}

\* the shop document that { ...req.body } gives: the fields of the body
\* over those of doc
WithBody(doc, wallet) ==
    IF wallet.present
    THEN [doc EXCEPT !.currentBalance = wallet.currentBalance,
                     !.lockedBalance = wallet.lockedBalance]
    ELSE doc

\* the shop that a createShop of user u creates
ShopCreatedBy(u) == CHOOSE s \in Shops : shopOwner[s] = u

\* shopController lines 25-52: seller?, Shop.findOne({ owner }), existing?,
\* validateShopInput
createShop_findShop(c, u, valid, wallet) ==
    /\ NextFree(c)
    /\ IF userType[u] # "SELLER"
       THEN Respond(c, Response("createShop", 403,
                                "Only sellers can create shops"))
       ELSE IF ShopOwnedBy(u) # None
       THEN Respond(c, Response("createShop", 400,
                                "You already have a shop"))
       ELSE IF ~valid
       THEN Respond(c, Response("createShop", 400,
                                "Shop name is required"))
       ELSE /\ calls' = [calls EXCEPT ![c] =
                 [pc |-> "cs_save", user |-> u, wallet |-> wallet]]
            /\ UNCHANGED lastResponse
    /\ UNCHANGED <<shops, withdrawals, orders, stock>>

\* shopController lines 66-82: new Shop({ ...req.body, owner }), shop.save()
createShop_saveShop(c) ==
    LET call == calls[c]
        s == ShopCreatedBy(call.user)
    IN  /\ call.pc = "cs_save"
        /\ shops' = [t \in DOMAIN shops \cup {s} |->
                        IF t = s THEN WithBody(NoDoc, call.wallet)
                        ELSE shops[t]]
        /\ Respond(c, Response("createShop", 201, None))
        /\ UNCHANGED <<withdrawals, orders, stock>>

\* shopController lines 208-244: validateShopInput, Shop.findOneAndUpdate(
\* { _id, owner }, { ...req.body }), found?
updateShop(c, u, s, valid, wallet) ==
    /\ NextFree(c)
    /\ IF ~valid
       THEN /\ Respond(c, Response("updateShop", 400,
                                   "Shop name is required"))
            /\ UNCHANGED shops
       ELSE IF s \notin DOMAIN shops \/ shopOwner[s] # u
       THEN /\ Respond(c, Response("updateShop", 404,
                          "Shop not found or you are not the owner"))
            /\ UNCHANGED shops
       ELSE /\ shops' = [shops EXCEPT ![s] = WithBody(@, wallet)]
            /\ Respond(c, Response("updateShop", 200, None))
    /\ UNCHANGED <<withdrawals, orders, stock>>

\* const { status } = req.body of updateShopStatus
ShopStatusInputs == {"active", "suspended", "deleted"}

\* shopController lines 342-379: administrator?, status value check,
\* Shop.findByIdAndUpdate(id, { status }), found?
updateShopStatus(c, u, s, status) ==
    /\ NextFree(c)
    /\ IF userType[u] # "ADMIN"
       THEN /\ Respond(c, Response("updateShopStatus", 403,
                          "Only administrators can update shop status"))
            /\ UNCHANGED shops
       ELSE IF status \notin {"pending", "active", "suspended", "closed"}
       THEN /\ Respond(c, Response("updateShopStatus", 400,
                                   "Invalid status"))
            /\ UNCHANGED shops
       ELSE IF s \notin DOMAIN shops
       THEN /\ Respond(c, Response("updateShopStatus", 404,
                                   "Shop not found"))
            /\ UNCHANGED shops
       ELSE /\ shops' = [shops EXCEPT ![s].status = status]
            /\ Respond(c, Response("updateShopStatus", 200, None))
    /\ UNCHANGED <<withdrawals, orders, stock>>

\* ------------------------------------------------- payment status writers
\* what the gateway answers to PaymentService.checkPaymentStatus: a payment
\* that the order records as completed is completed; any other payment is
\* completed, has failed or is still pending
GatewayAnswers(o) ==
    IF orders[o].paymentStatus = "completed" THEN {"COMPLETED"}
    ELSE {"COMPLETED", "FAILED", "PENDING"}

\* req.headers['x-api-key']: no header, process.env.ZENOPAY_API_KEY, or
\* another value
ApiKeyInputs == {None, "valid", "wrong"}

\* req.body.payment_status || req.body.status: none, or a string
CallbackStatusInputs == {None, "COMPLETED", "failed", "PENDING", "Weird"}

\* String.prototype.toUpperCase and toLowerCase on the strings of the model
toUpperCase(x) ==
    CASE x = "failed" -> "FAILED"
      [] x = "Weird" -> "WEIRD"
      [] OTHER -> x

toLowerCase(x) ==
    CASE x = "COMPLETED" -> "completed"
      [] x = "PENDING" -> "pending"
      [] x = "Weird" -> "weird"
      [] OTHER -> x

\* order.paymentStatus = 'completed'; order.status = 'pending'
CompletePayment(doc) ==
    [doc EXCEPT !.paymentStatus = "completed", !.status = "pending"]

\* the answer of the checks of webhookController lines 17-48 to a callback
\* that they do not let through: API key, order_id given?, Order.findOne by
\* transaction id, found?
handleZenopayCallback_refusal(apiKey, order_id) ==
    IF apiKey # None /\ apiKey # "valid"
    THEN Response("handleZenopayCallback", 401, "Unauthorized")
    ELSE IF order_id = None
    THEN Response("handleZenopayCallback", 400, "Missing order_id")
    ELSE IF OrderOfTransaction(order_id) = None
    THEN Response("handleZenopayCallback", 200, "Order not found")
    ELSE Passed("handleZenopayCallback")

handleZenopayCallback_findOrder(c, apiKey, order_id, payment_status) ==
    LET o == OrderOfTransaction(order_id)
        refusal == handleZenopayCallback_refusal(apiKey, order_id)
    IN  /\ NextFree(c)
        /\ IF refusal # Passed("handleZenopayCallback")
           THEN Respond(c, refusal)
           ELSE /\ calls' = [calls EXCEPT ![c] =
                     [pc |-> "hz_save", order |-> o, orderDoc |-> orders[o],
                      payment_status |-> payment_status]]
                /\ UNCHANGED lastResponse
        /\ UNCHANGED <<shops, withdrawals, orders, stock>>

\* webhookController lines 83-144: the dispatches are collected with
\* Promise.allSettled inside a try of their own, the answer follows it
handleZenopayCallback_response(dispatch) ==
    Response("handleZenopayCallback", 200, None)

\* webhookController lines 50-144: verification with the gateway,
\* duplicate guard on the loaded order, order.save(), the notifications
handleZenopayCallback_saveOrder(c) ==
    LET call == calls[c]
        o == call.order
    IN  /\ call.pc = "hz_save"
        /\ \E actualStatus \in GatewayAnswers(o) :
              IF actualStatus # "COMPLETED"
              THEN /\ Respond(c, Response("handleZenopayCallback", 200,
                                          "Payment not completed"))
                   /\ UNCHANGED orders
              ELSE IF call.orderDoc.paymentStatus = "completed"
              THEN /\ Respond(c, Response("handleZenopayCallback", 200,
                                          "Already processed"))
                   /\ UNCHANGED orders
              ELSE /\ orders' = [orders EXCEPT ![o] =
                         SaveDoc(@, call.orderDoc,
                                 CompletePayment(call.orderDoc))]
                   /\ \E dispatch \in NotificationOutcomes :
                         Respond(c, handleZenopayCallback_response(dispatch))
        /\ UNCHANGED <<shops, withdrawals, stock>>

\* webhookController lines 271-314: the switch on
\* paymentStatusValue?.toUpperCase(), as <<newPaymentStatus, newOrderStatus>>
MapPaymentStatus(paymentStatusValue, doc) ==
    LET upper == IF paymentStatusValue = None THEN None
                 ELSE toUpperCase(paymentStatusValue)
    IN  CASE upper \in {"COMPLETED", "SUCCESS", "SUCCESSFUL"} ->
                <<"completed", "pending">>
          [] upper \in {"FAILED", "FAILURE"} -> <<"failed", "cancelled">>
          [] upper \in {"PENDING", "PROCESSING"} ->
                <<"pending", "pending_payment">>
          [] OTHER ->
                <<IF paymentStatusValue = None THEN "unknown"
                  ELSE toLowerCase(paymentStatusValue), doc.status>>

\* the answer of the checks of webhookController lines 240-269, the other
\* version of the callback, to a callback that they do not let through:
\* order_id given?, Order.findOne by transaction id, found?
handleZenopayCallback2_refusal(order_id) ==
    IF order_id = None
    THEN Response("handleZenopayCallback2", 400, "Missing order_id")
    ELSE IF OrderOfTransaction(order_id) = None
    THEN Response("handleZenopayCallback2", 200, "Order not found")
    ELSE Passed("handleZenopayCallback2")

handleZenopayCallback2_findOrder(c, order_id, payment_status) ==
    LET o == OrderOfTransaction(order_id)
        refusal == handleZenopayCallback2_refusal(order_id)
    IN  /\ NextFree(c)
        /\ IF refusal # Passed("handleZenopayCallback2")
           THEN Respond(c, refusal)
           ELSE /\ calls' = [calls EXCEPT ![c] =
                     [pc |-> "hz2_save", order |-> o, orderDoc |-> orders[o],
                      payment_status |-> payment_status]]
                /\ UNCHANGED lastResponse
        /\ UNCHANGED <<shops, withdrawals, orders, stock>>

\* webhookController lines 341-412: as in the first version, the dispatches
\* have a try of their own and the answer follows it
handleZenopayCallback2_response(dispatch) ==
    Response("handleZenopayCallback2", 200, None)

\* a callback that credits the shop as soon as the payment is completed
handleZenopayCallback2_saveOrderCrediting(c) ==
    LET call == calls[c]
        o == call.order
        mapped == MapPaymentStatus(call.payment_status, call.orderDoc)
        doc == [call.orderDoc EXCEPT !.paymentStatus = mapped[1],
                                     !.status = mapped[2]]
    IN  /\ call.pc = "hz2_save"
        /\ orders' = [orders EXCEPT ![o] = SaveDoc(@, call.orderDoc, doc)]
        /\ shops' = IF mapped[1] = "completed"
                    THEN [shops EXCEPT ![orderShop[o]] =
                             CreditFunds(@, orderRevenue(o))]
                    ELSE shops
        /\ \E dispatch \in NotificationOutcomes :
              Respond(c, handleZenopayCallback2_response(dispatch))
        /\ UNCHANGED <<withdrawals, stock>>

\* webhookController lines 271-412: the mapped payment status and order
\* status are set on the loaded order, order.save(), the notifications
handleZenopayCallback2_saveOrder(c) ==
    LET call == calls[c]
        o == call.order
        mapped == MapPaymentStatus(call.payment_status, call.orderDoc)
        doc == [call.orderDoc EXCEPT !.paymentStatus = mapped[1],
                                     !.status = mapped[2]]
    IN  /\ call.pc = "hz2_save"
        /\ orders' = [orders EXCEPT ![o] = SaveDoc(@, call.orderDoc, doc)]
        /\ \E dispatch \in NotificationOutcomes :
              Respond(c, handleZenopayCallback2_response(dispatch))
        /\ UNCHANGED <<shops, withdrawals, stock>>

\* webhookController lines 158-173: Order.findById, found?, transaction id
\* present?
checkPaymentStatus_findOrder(c, o) ==
    /\ NextFree(c)
    /\ IF o \notin DOMAIN orders
       THEN Respond(c, Response("checkPaymentStatus", 404,
                                "Order not found"))
       ELSE IF orderTransactionId[o] = None
       THEN Respond(c, Response("checkPaymentStatus", 400,
                        "No payment transaction found for this order"))
       ELSE /\ calls' = [calls EXCEPT ![c] =
                 [pc |-> "cp_save", order |-> o, orderDoc |-> orders[o]]]
            /\ UNCHANGED lastResponse
    /\ UNCHANGED <<shops, withdrawals, orders, stock>>

\* webhookController lines 175-207: gateway status, order.save() when the
\* payment is completed
checkPaymentStatus_saveOrder(c) ==
    LET call == calls[c]
        o == call.order
    IN  /\ call.pc = "cp_save"
        /\ \E paymentStatus \in GatewayAnswers(o) :
              IF paymentStatus = "COMPLETED"
              THEN orders' = [orders EXCEPT ![o] =
                      SaveDoc(@, call.orderDoc,
                              CompletePayment(call.orderDoc))]
              ELSE UNCHANGED orders
        /\ Respond(c, Response("checkPaymentStatus", 200, None))
        /\ UNCHANGED <<shops, withdrawals, stock>>

\* the values of req.body.paymentStatus
PaymentStatusInputs == {"completed", "failed", "pending"}

\* part_004 lines 570-593: Order.findById, found?
updatePaymentStatus_findOrder(c, o, paymentStatus) ==
    /\ NextFree(c)
    /\ IF o \notin DOMAIN orders
       THEN Respond(c, Response("updatePaymentStatus", 404,
                                "Order not found"))
       ELSE /\ calls' = [calls EXCEPT ![c] =
                 [pc |-> "up_update", order |-> o,
                  paymentStatus |-> paymentStatus]]
            /\ UNCHANGED lastResponse
    /\ UNCHANGED <<shops, withdrawals, orders, stock>>

\* part_004 lines 595-634: Order.findByIdAndUpdate(orderId, { $set:
\* updateData }); updateData.status is 'pending' for a completed payment and
\* 'cancelled' for a failed one
updatePaymentStatus_updateOrder(c) ==
    LET call == calls[c]
    IN  /\ call.pc = "up_update"
        /\ orders' = [orders EXCEPT ![call.order].status =
              CASE call.paymentStatus = "completed" -> "pending"
                [] call.paymentStatus = "failed" -> "cancelled"
                [] OTHER -> @]
        /\ Respond(c, Response("updatePaymentStatus", 200, None))
        /\ UNCHANGED <<shops, withdrawals, stock>>

\* ---------------------------------------------------------- specification
\* The states in which the requests that are followed arrive.  The order
\* has just been created by createOrder; or its payment has been completed
\* and the shop owner has moved it to processing and to shipped, so that it
\* is about to be delivered or cancelled; or the shop owner has also moved
\* it to delivered and the shop has been credited with its revenue; or the
\* shop owner has then asked to withdraw a part of it.  The stock is what
\* createOrder left after taking the quantity.
ShippedOrder ==
    [status |-> "shipped",
     statusHistory |-> <<[status |-> "pending", updatedBy |-> "seller"],
                         [status |-> "processing", updatedBy |-> "seller"]>>,
     paymentStatus |-> "completed"]

DeliveredOrder ==
    [status |-> "delivered",
     statusHistory |-> Append(ShippedOrder.statusHistory,
                              [status |-> "shipped", updatedBy |-> "seller"]),
     paymentStatus |-> "completed"]

\* the order as createOrder stores it for a payment by mobile money
NewOrder ==
    [status |-> "pending_payment", statusHistory |-> << >>,
     paymentStatus |-> "pending"]

\* the shop after the delivery of its order
CreditedShop(s) ==
    CreditFunds(NoDoc, orderRevenue(CHOOSE o \in Orders : orderShop[o] = s))

\* the row of a request of the shop's owner for 1, with a complete
\* mobile money destination
PendingRequest(s) ==
    [shop |-> s, user |-> shopOwner[s], amount |-> 1, status |-> "pending",
     type |-> "mobile_money", details |-> FullDetails, adminNote |-> None,
     processedBy |-> None, processedAt |-> FALSE]

Init ==
    /\ \/ /\ orders = [o \in Orders |-> NewOrder]
          /\ shops = [s \in {"s1"} |-> NoDoc]
          /\ withdrawals = << >>
       \/ /\ orders = [o \in Orders |-> ShippedOrder]
          /\ shops = [s \in {"s1"} |-> NoDoc]
          /\ withdrawals = << >>
       \/ /\ orders = [o \in Orders |-> DeliveredOrder]
          /\ shops = [s \in {"s1"} |-> CreditedShop(s)]
          /\ withdrawals = << >>
       \/ /\ orders = [o \in Orders |-> DeliveredOrder]
          /\ shops = [s \in {"s1"} |->
                        ReserveFunds(CreditedShop(s), PendingRequest(s).amount)]
          /\ withdrawals = <<PendingRequest("s1")>>
    /\ stock = [o \in Orders |-> 0]
    /\ calls = [c \in Calls |-> Idle]
    /\ lastResponse = Response(None, 0, None)
    /\ started = 0

\* the callers of each endpoint: the shop owner, a seller without shop and
\* a buyer ask for withdrawals; the shop owner and a buyer update orders;
\* the administrator, and also the shop owner, send decisions on withdrawals
RequestCallers == {"seller", "seller2", "buyer"}
DecisionCallers == {"admin"}
OwnerDecisionCallers == {"seller"}
OrderCallers == {"seller", "buyer"}
ShopCallers == {"seller", "seller2", "admin"}

\* the handlers that read and write the wallet, for requests sent by
\* requesters with an amount in amounts and paymentDetails in pds, and for
\* decisions sent by deciders with an adminNote in notes
BeginWith(c, requesters, amounts, pds, deciders, notes) ==
    \/ \E u \in requesters, amount \in amounts, pd \in pds :
          requestWithdrawal_findShop(c, u, amount, pd)
    \/ \E u \in deciders, id \in WithdrawalIds,
          status \in {"approved", "rejected", "pending"},
          adminNote \in notes :
          updateWithdrawalStatus_findRequest(c, u, id, status, adminNote)
    \/ \E u \in OrderCallers, o \in OrderIds, status \in StatusInputs :
          updateOrderStatus_findOrder(c, u, o, status)

\* one input for each answer of the checks of requestWithdrawal
Begin(c) ==
    BeginWith(c, {"seller", "buyer"}, 0..MaxAmount,
              {pd \in PaymentDetailsInputs :
                  ~pd.present \/ pd.type = "mobile_money"},
              DecisionCallers, AdminNoteInputs)

BeginAny(c) ==
    BeginWith(c, RequestCallers, Amounts,
              PaymentDetailsInputs \cup PartialPaymentDetailsInputs,
              DecisionCallers \cup OwnerDecisionCallers,
              AdminNoteInputs \cup UncastableAdminNoteInputs)

Step(c) ==
    \/ requestWithdrawal_saveShop(c)
    \/ requestWithdrawal_saveRequest(c)
    \/ updateWithdrawalStatus_findShop(c)
    \/ updateWithdrawalStatus_saveShop(c)
    \/ updateWithdrawalStatus_saveRequest(c)
    \/ updateOrderStatus_sideEffect(c)
    \/ updateOrderStatus_creditShop(c)
    \/ updateOrderStatus_updateOrder(c)

\* the handlers of shop management
BeginOther(c) ==
    \/ \E u \in ShopCallers, valid \in BOOLEAN, wallet \in WalletInputs :
          createShop_findShop(c, u, valid, wallet)
    \/ \E u \in ShopCallers, s \in Shops, valid \in BOOLEAN,
          wallet \in WalletInputs :
          updateShop(c, u, s, valid, wallet)
    \/ \E u \in ShopCallers, s \in Shops, status \in ShopStatusInputs :
          updateShopStatus(c, u, s, status)

StepOther(c) ==
    createShop_saveShop(c)

\* req.body.order_id of a callback: the transaction id of the order, one
\* that no order has, or none
TransactionIdInputs == {"t1", "t2", None}

\* the handlers that write the order: updateOrderStatus for every caller,
\* the two versions of the payment callback, the status check and
\* updatePaymentStatus
BeginPay(c) ==
    \/ \E u \in Users, o \in OrderIds, status \in StatusInputs :
          updateOrderStatus_findOrder(c, u, o, status)
    \/ \E apiKey \in ApiKeyInputs, order_id \in TransactionIdInputs,
          payment_status \in CallbackStatusInputs :
          handleZenopayCallback_findOrder(c, apiKey, order_id,
                                          payment_status)
    \/ \E order_id \in TransactionIdInputs,
          payment_status \in CallbackStatusInputs :
          handleZenopayCallback2_findOrder(c, order_id, payment_status)
    \/ \E o \in OrderIds : checkPaymentStatus_findOrder(c, o)
    \/ \E o \in OrderIds, paymentStatus \in PaymentStatusInputs :
          updatePaymentStatus_findOrder(c, o, paymentStatus)

\* the steps that follow an answer of the store
LocalStepPay(c) ==
    \/ updateOrderStatus_sideEffect(c)
    \/ updateOrderStatus_creditShop(c)
    \/ updateOrderStatus_updateOrder(c)
    \/ handleZenopayCallback2_saveOrder(c)
    \/ updatePaymentStatus_updateOrder(c)

\* the steps that follow await PaymentService.checkPaymentStatus(...): they
\* are taken when the payment processor has answered
GatewayStepPay(c) ==
    \/ handleZenopayCallback_saveOrder(c)
    \/ checkPaymentStatus_saveOrder(c)

StepPay(c) ==
    \/ LocalStepPay(c)
    \/ GatewayStepPay(c)

\* of the requests that are not refused by their checks only the first max
\* are followed
Counted(c, max) ==
    IF Free(c)' /\ lastResponse'.code >= 400
    THEN UNCHANGED started
    ELSE started < max /\ started' = started + 1

\* requests to the handlers of the wallet arrive at any time and overlap;
\* the administrator decides, and the request bodies are well formed or
\* refused by the checks of the controller or of the schema
Next ==
    \E c \in Calls :
       \/ NextFree(c) /\ Begin(c) /\ Counted(c, MaxCalls)
       \/ ~Free(c) /\ Step(c) /\ UNCHANGED started

Spec == Init /\ [][Next]_vars

\* requests to the handlers of the wallet, of the order status and of shop
\* management, with every request body, one at a time: a handler starts
\* only when no other is in flight
NextSeq ==
    \E c \in Calls :
       \/ /\ NextFree(c)
          /\ \A d \in Calls : Free(d)
          /\ BeginAny(c) \/ BeginOther(c)
          /\ Counted(c, MaxSeqCalls)
       \/ /\ ~Free(c)
          /\ Step(c) \/ StepOther(c)
          /\ UNCHANGED started

SpecSeq == Init /\ [][NextSeq]_vars

\* the handlers of routes/withdrawals.js that create, decide and list the
\* withdrawal requests, and createShop for the shop of the second seller,
\* with well formed bodies
BeginList(c) ==
    \/ \E u \in RequestCallers, amount \in 1..MaxAmount :
          requestWithdrawal_findShop(c, u, amount,
              [present |-> TRUE, type |-> "mobile_money",
               details |-> FullDetails])
    \/ \E u \in DecisionCallers, id \in WithdrawalIds,
          status \in {"approved", "rejected"}, adminNote \in AdminNoteInputs :
          updateWithdrawalStatus_findRequest(c, u, id, status, adminNote)
    \/ \E u \in ShopCallers, wallet \in WalletInputs :
          createShop_findShop(c, u, TRUE, wallet)
    \/ \E u \in Users, status \in StatusFilterInputs, page \in PageInputs,
          limit \in LimitInputs :
          getWithdrawals(c, u, status, page, limit)

StepList(c) ==
    \/ requestWithdrawal_saveShop(c)
    \/ requestWithdrawal_saveRequest(c)
    \/ updateWithdrawalStatus_findShop(c)
    \/ updateWithdrawalStatus_saveShop(c)
    \/ updateWithdrawalStatus_saveRequest(c)
    \/ createShop_saveShop(c)

\* one request at a time, the lists between the requests and decisions
NextList ==
    \E c \in Calls :
       \/ /\ NextFree(c)
          /\ \A d \in Calls : Free(d)
          /\ BeginList(c)
          /\ Counted(c, MaxListCalls)
       \/ /\ ~Free(c)
          /\ StepList(c)
          /\ UNCHANGED started

SpecList == Init /\ [][NextList]_vars

\* requests to the handlers that write the order come one at a time, from
\* every caller and with every input
NextPay ==
    \E c \in Calls :
       \/ /\ NextFree(c)
          /\ \A d \in Calls : Free(d)
          /\ BeginPay(c)
          /\ Counted(c, MaxPayCalls)
       \/ /\ ~Free(c)
          /\ StepPay(c)
          /\ UNCHANGED started

SpecPay == Init /\ [][NextPay]_vars

\* the event loop resumes a handler whose awaited answer of the store has
\* come; PaymentService.checkPaymentStatus passes the call to the processor
\* on without a timeout (part_003 lines 30-37) and nothing in the handlers
\* races it with a timer, so no step is promised to a handler that waits
\* for the processor
SpecPayFair ==
    /\ SpecPay
    /\ \A c \in Calls :
          WF_vars(~Free(c) /\ LocalStepPay(c) /\ UNCHANGED started)

\* ----------------------------------------------------- steps and totals
Total(s) == shops[s].currentBalance + shops[s].lockedBalance

\* call c is in flight and sends its response in this step
Answers(c) == ~Free(c) /\ Free(c)'

\* the step in which call c writes the wallet: delivered-credit, reserve,
\* burn (approval) and release (rejection)
CreditStep(c) == calls[c].pc = "uo_credit" /\ calls'[c].pc = "uo_update"

ReserveStep(c) == calls[c].pc = "rw_shop" /\ calls'[c].pc = "rw_row"

DecisionShopStep(c, status) ==
    /\ calls[c].pc = "uw_save"
    /\ calls[c].status = status
    /\ ~calls[c].shopSaved
    /\ (Free(c)' \/ calls'[c].shopSaved)

BurnStep(c) == DecisionShopStep(c, "approved")

ReleaseStep(c) == DecisionShopStep(c, "rejected")

\* ----------------------------------------------------------------- claims

\* C1: in every reachable state every shop's currentBalance and
\* lockedBalance are >= 0, whatever the interleaving of delivered-credits,
\* withdrawal requests and decisions.
C1_BalancesNonNegative ==
    \A s \in DOMAIN shops :
        shops[s].currentBalance >= 0 /\ shops[s].lockedBalance >= 0

\* C2: when a withdrawal request succeeds right after another request that
\* succeeded on the same loaded wallet (the two ran concurrently against the
\* same available balance), their amounts sum to at most that balance.
C2_ConcurrentRequestsWithinBalance ==
    [][\A c \in Calls :
          (/\ calls[c].pc = "rw_row"
           /\ Answers(c)
           /\ lastResponse'.code = 201
           /\ lastResponse.kind = "requestWithdrawal"
           /\ lastResponse.code = 201
           /\ lastResponse.loaded = calls[c].shopDoc)
          => lastResponse.amount + calls[c].amount
                <= calls[c].shopDoc.currentBalance]_vars

\* C3: currentBalance + lockedBalance of a shop increases only in a
\* delivered-credit step, decreases only in an approval (burn) step, and is
\* left unchanged by every reserve step and every release step.
C3_TotalChangesOnlyByCreditAndBurn ==
    [][\A s \in DOMAIN shops :
          /\ Total(s)' > Total(s) => \E c \in Calls : CreditStep(c)
          /\ Total(s)' < Total(s) => \E c \in Calls : BurnStep(c)
          /\ (\E c \in Calls : ReserveStep(c) \/ ReleaseStep(c))
                => Total(s)' = Total(s)]_vars

\* C4: a WithdrawalRequest whose stored status is approved or rejected
\* never changes status again.
C4_TerminalStatusIsFinal ==
    [][\A id \in 1..Len(withdrawals) :
          withdrawals[id].status \in {"approved", "rejected"}
          => withdrawals'[id].status = withdrawals[id].status]_vars

\* C5: a decision (approve or reject) asked for a request that is already
\* approved or rejected never gets past the check; it is answered with 400
\* 'Request is already processed' and changes neither the shop's wallet nor
\* any request row.
C5_AlreadyProcessedRefused ==
    [][\A id \in 1..Len(withdrawals) :
          withdrawals[id].status \in {"approved", "rejected"}
          => /\ \A c \in Calls :
                   ~(/\ Free(c)
                     /\ calls'[c].pc = "uw_shop"
                     /\ calls'[c].id = id)
             /\ (/\ calls' = calls
                 /\ lastResponse'.kind = "updateWithdrawalStatus"
                 /\ lastResponse'.id = id)
                => /\ lastResponse'.code = 400
                   /\ lastResponse'.error = "Request is already processed"
                   /\ UNCHANGED <<shops, withdrawals>>]_vars

C5_Witness ==
    /\ lastResponse.kind = "updateWithdrawalStatus"
    /\ lastResponse.error = "Request is already processed"
    /\ lastResponse.id \in 1..Len(withdrawals)
    /\ withdrawals[lastResponse.id].status = "approved"
    /\ \A c \in Calls : Free(c)

\* C6: of the updateWithdrawalStatus calls on one request only one takes
\* effect: a call never answers with success for a request for which the
\* response just before was already a successful decision.
C6_DecidedOnce ==
    [][\A c \in Calls :
          (calls[c].pc = "uw_save" /\ Answers(c))
          => ~(/\ lastResponse.kind = "updateWithdrawalStatus"
               /\ lastResponse.code = 200
               /\ lastResponse.id = calls[c].id)]_vars

\* the row that requestWithdrawal creates for call record call
IsNewRequest(row, call) ==
    /\ row.amount = call.amount
    /\ row.status = "pending"
    /\ row.shop = call.shop
    /\ row.user = call.user

\* C7: with one request at a time, a successful requestWithdrawal(amount)
\* had currentBalance >= amount > 0, leaves currentBalance lower by exactly
\* amount and lockedBalance higher by exactly amount than they were when the
\* call was made, and has created exactly one row, with that amount and
\* status pending.
C7_RequestReservesExactly ==
    [][\A c \in Calls :
          (calls[c].pc = "rw_row" /\ Answers(c) /\ lastResponse'.code = 201)
          => LET call == calls[c]
                 before == call.shopDoc
             IN  /\ before.currentBalance >= call.amount
                 /\ call.amount > 0
                 /\ shops'[call.shop].currentBalance
                       = before.currentBalance - call.amount
                 /\ shops'[call.shop].lockedBalance
                       = before.lockedBalance + call.amount
                 /\ Len(withdrawals') = Len(withdrawals) + 1
                 /\ IsNewRequest(withdrawals'[Len(withdrawals')], call)
                 /\ \A i \in 1..Len(withdrawals) :
                       withdrawals'[i] = withdrawals[i]]_vars

C7_Witness ==
    /\ lastResponse.kind = "requestWithdrawal"
    /\ lastResponse.code = 201
    /\ lastResponse.amount = 1
    /\ lastResponse.loaded.currentBalance = 2
    /\ lastResponse.loaded.lockedBalance = 0
    /\ shops["s1"].currentBalance = 1
    /\ shops["s1"].lockedBalance = 1
    /\ withdrawals[lastResponse.id].status = "pending"

\* C8: with one request at a time, the approval of a pending request of
\* amount a, when it is answered with success, has left lockedBalance lower
\* by exactly a and currentBalance as it was, and has stored status
\* approved; when the approval follows the
\* request itself, currentBalance stays at its value after the request and
\* lockedBalance is back at its value before the request.
C8_ApprovalBurnsLocked ==
    [][\A c \in Calls :
          (calls[c].pc = "uw_save" /\ calls[c].status = "approved"
             /\ Answers(c) /\ lastResponse'.code = 200)
          => LET call == calls[c]
                 s == call.row.shop
                 a == call.row.amount
             IN  /\ shops'[s].lockedBalance = call.shopDoc.lockedBalance - a
                 /\ shops'[s].currentBalance = call.shopDoc.currentBalance
                 /\ withdrawals'[call.id].status = "approved"
                 /\ (/\ lastResponse.kind = "requestWithdrawal"
                     /\ lastResponse.code = 201
                     /\ lastResponse.id = call.id)
                    => /\ shops'[s].currentBalance
                            = lastResponse.loaded.currentBalance
                                 - lastResponse.amount
                       /\ shops'[s].lockedBalance
                            = lastResponse.loaded.lockedBalance]_vars

C8_Witness ==
    /\ lastResponse.kind = "updateWithdrawalStatus"
    /\ lastResponse.code = 200
    /\ withdrawals[lastResponse.id].status = "approved"
    /\ withdrawals[lastResponse.id].amount = 1
    /\ Len(withdrawals) = 1
    /\ shops["s1"].currentBalance = 1
    /\ shops["s1"].lockedBalance = 0

\* C9: with one request at a time, when the rejection of a request follows
\* the successful requestWithdrawal that created it, with no other request
\* in between, currentBalance and lockedBalance are back at their values
\* before the request.
C9_RejectionRestoresBalances ==
    [][\A c \in Calls :
          (/\ calls[c].pc = "uw_save"
           /\ calls[c].status = "rejected"
           /\ Answers(c)
           /\ lastResponse.kind = "requestWithdrawal"
           /\ lastResponse.code = 201
           /\ lastResponse.id = calls[c].id)
          => LET s == calls[c].row.shop
             IN  /\ shops'[s].currentBalance
                       = lastResponse.loaded.currentBalance
                 /\ shops'[s].lockedBalance
                       = lastResponse.loaded.lockedBalance]_vars

C9_Witness ==
    /\ lastResponse.kind = "updateWithdrawalStatus"
    /\ lastResponse.code = 200
    /\ Len(withdrawals) = 1
    /\ withdrawals[1].status = "rejected"
    /\ withdrawals[1].amount = 2
    /\ shops["s1"].currentBalance = 2
    /\ shops["s1"].lockedBalance = 0

\* C10: with one request at a time, when a requestWithdrawal call that got
\* past the funds check has answered (with success or with an error),
\* either the funds are reserved and a pending row for them exists, or the
\* wallet is as it was when the call was made and no row was created.
C10_RequestAllOrNothing ==
    [][\A c \in Calls :
          (calls[c].pc = "rw_row" /\ Answers(c))
          => LET call == calls[c]
                 before == call.shopDoc
                 after == shops'[call.shop]
             IN  \/ /\ after.currentBalance
                          = before.currentBalance - call.amount
                    /\ after.lockedBalance
                          = before.lockedBalance + call.amount
                    /\ Len(withdrawals') = Len(withdrawals) + 1
                    /\ IsNewRequest(withdrawals'[Len(withdrawals')], call)
                 \/ /\ after.currentBalance = before.currentBalance
                    /\ after.lockedBalance = before.lockedBalance
                    /\ withdrawals' = withdrawals]_vars

\* C11: with one request at a time, when a decision (approve or reject)
\* that reached its two saves has answered, either both writes are stored
\* (the wallet is burned or released and the row has the new status) or
\* none is (the wallet and the row are as the call loaded them).
C11_DecisionAllOrNothing ==
    [][\A c \in Calls :
          (calls[c].pc = "uw_save" /\ Answers(c))
          => LET call == calls[c]
                 s == call.row.shop
                 a == call.row.amount
                 before == call.shopDoc
                 after == shops'[s]
             IN  \/ /\ withdrawals'[call.id].status = call.status
                    /\ after.lockedBalance = before.lockedBalance - a
                    /\ after.currentBalance
                          = IF call.status = "rejected"
                            THEN before.currentBalance + a
                            ELSE before.currentBalance
                 \/ /\ withdrawals'[call.id] = call.row
                    /\ after = before]_vars

\* C12: an updateWithdrawalStatus call of a caller whose userType is not
\* ADMIN never gets past the checks of the handler, and no step of such a
\* call changes a request row or a wallet.
C12_OnlyAdminDecides ==
    [][\A c \in Calls :
          /\ (Free(c) /\ calls'[c].pc = "uw_shop")
                => userType[calls'[c].user] = "ADMIN"
          /\ (/\ calls[c].pc \in {"uw_shop", "uw_save"}
              /\ calls'[c] # calls[c]
              /\ userType[calls[c].user] # "ADMIN")
                => UNCHANGED <<shops, withdrawals>>]_vars

\* C13: a requestWithdrawal call with amount <= 0, from a caller who owns
\* no shop, or for more than the shop's currentBalance never gets past the
\* checks of the handler; the step that refuses a requestWithdrawal call
\* creates no row and leaves every wallet unchanged.
C13_RefusedRequestChangesNothing ==
    [][\A c \in Calls :
          /\ (Free(c) /\ calls'[c].pc = "rw_shop")
                => LET call == calls'[c]
                   IN  /\ call.amount > 0
                       /\ call.shop \in DOMAIN shops
                       /\ shopOwner[call.shop] = call.user
                       /\ shops[call.shop].currentBalance >= call.amount
          /\ (/\ calls' = calls
              /\ lastResponse' # lastResponse
              /\ lastResponse'.kind = "requestWithdrawal")
                => /\ lastResponse'.code \in {400, 404}
                   /\ UNCHANGED <<shops, withdrawals>>]_vars

C13_Witness ==
    /\ lastResponse.kind = "requestWithdrawal"
    /\ lastResponse.code = 400
    /\ lastResponse.error = "Insufficient funds"
    /\ lastResponse.amount = 2
    /\ shops["s1"].currentBalance = 1
    /\ shops["s1"].lockedBalance = 1
    /\ Len(withdrawals) = 1

\* C14: every request row has a payout destination with all the fields of
\* its variant: requestWithdrawal creates no row for a destination that
\* lacks some of them.
C14_RowsHaveCompleteDestination ==
    \A id \in 1..Len(withdrawals) : withdrawals[id].details = FullDetails

\* C15: with one request at a time, an updateOrderStatus call gets past its
\* checks, and answers with success, only for a (current, target) pair of
\* the table pending_payment->{pending,cancelled},
\* pending->{processing,cancelled}, processing->{shipped,cancelled},
\* shipped->{delivered,cancelled}; the step that refuses an
\* updateOrderStatus call leaves orders, stock and wallets unchanged.
C15_OnlyTableTransitions ==
    [][LET table ==
             {<<"pending_payment", "pending">>,
              <<"pending_payment", "cancelled">>,
              <<"pending", "processing">>, <<"pending", "cancelled">>,
              <<"processing", "shipped">>, <<"processing", "cancelled">>,
              <<"shipped", "delivered">>, <<"shipped", "cancelled">>}
       IN  \A c \in Calls :
              /\ (Free(c) /\ calls'[c].pc = "uo_effect")
                    => <<orders[calls'[c].order].status, calls'[c].status>>
                          \in table
              /\ (calls[c].pc = "uo_update" /\ Answers(c))
                    => /\ <<orders[calls[c].order].status,
                             orders'[calls[c].order].status>> \in table
                       /\ orders'[calls[c].order].status = calls[c].status
              /\ (/\ calls' = calls
                  /\ lastResponse' # lastResponse
                  /\ lastResponse'.kind = "updateOrderStatus")
                    => /\ lastResponse'.code \in {400, 403, 404}
                       /\ UNCHANGED <<orders, stock, shops>>]_vars

C15_Witness ==
    /\ lastResponse.kind = "updateOrderStatus"
    /\ lastResponse.code = 400
    /\ lastResponse.error = "Cannot change status"
    /\ orders["o1"].status = "pending"
    /\ orders["o1"].statusHistory = << >>

\* C16: every change of an order's stored status follows an edge of the
\* transition graph, whichever handler writes it; in particular the status
\* of a delivered or cancelled order never changes.
C16_StatusFollowsGraph ==
    [][\A o \in Orders :
          orders'[o].status # orders[o].status
          => orders'[o].status \in ORDER_STATUS_FLOW[orders[o].status]]_vars

\* C17: whatever the interleaving of updateOrderStatus calls, what a shop
\* has been credited in total is at most one revenue for each of its
\* orders.
C17_CreditedOncePerOrder ==
    \A s \in DOMAIN shops :
        \A o \in Orders :
            (\A p \in Orders : orderShop[p] = s => p = o)
            => shops[s].totalRevenue <= orderAmounts[o].subtotal

\* C18: with one request at a time, when an updateOrderStatus call that
\* moves a shipped order to delivered answers with success, the shop's
\* currentBalance and metrics.totalRevenue are higher by exactly
\* order.amounts.subtotal than they were, and lockedBalance is as it was.
C18_DeliveryCreditsSubtotal ==
    [][\A c \in Calls :
          (calls[c].pc = "uo_update" /\ calls[c].status = "delivered"
             /\ Answers(c))
          => LET call == calls[c]
                 s == orderShop[call.order]
                 before == call.shopDoc
                 subtotal == orderAmounts[call.order].subtotal
             IN  /\ call.orderDoc.status = "shipped"
                 /\ orders'[call.order].status = "delivered"
                 /\ shops'[s].currentBalance
                       = before.currentBalance + subtotal
                 /\ shops'[s].totalRevenue = before.totalRevenue + subtotal
                 /\ shops'[s].lockedBalance = before.lockedBalance]_vars

C18_Witness ==
    /\ lastResponse.kind = "updateOrderStatus"
    /\ lastResponse.code = 200
    /\ orders["o1"].status = "delivered"
    /\ shops["s1"].currentBalance = 2
    /\ shops["s1"].lockedBalance = 0
    /\ shops["s1"].totalRevenue = 2

\* C19: currentBalance + lockedBalance of a shop increases only in the
\* step in which a delivered transition of updateOrderStatus credits it.
C19_OnlyDeliveryRaisesTotal ==
    [][\A s \in DOMAIN shops :
          Total(s)' > Total(s) => \E c \in Calls : CreditStep(c)]_vars

\* C20: a shop that createShop creates has currentBalance = 0 and
\* lockedBalance = 0.
C20_NewShopHasEmptyWallet ==
    [][\A s \in (DOMAIN shops') \ (DOMAIN shops) :
          shops'[s].currentBalance = 0 /\ shops'[s].lockedBalance = 0]_vars

\* C21: when no request is in flight, the stock of each order's line is
\* what createOrder left, plus the line quantity exactly when the order is
\* cancelled: the quantity is restocked once when, and only when, the order
\* enters cancelled, whichever handler moves it there.
C21_RestockedOnceOnCancellation ==
    LET stockAfterCreateOrder == 0
    IN  (\A c \in Calls : Free(c))
        => \A o \in Orders :
              stock[o] = stockAfterCreateOrder
                         + (IF orders[o].status = "cancelled"
                            THEN orderQuantity[o] ELSE 0)

\* C22: the step in which an updateOrderStatus call writes the order and
\* answers with success appends exactly one entry, {the status the order
\* had, the caller}, to the stored statusHistory and keeps the entries that
\* were there, also when calls overlap.
C22_HistoryAppendedOnce ==
    [][\A c \in Calls :
          (calls[c].pc = "uo_update" /\ Answers(c)
           /\ lastResponse'.code = 200)
          => LET o == calls[c].order
             IN  orders'[o].statusHistory
                    = Append(orders[o].statusHistory,
                             [status |-> orders[o].status,
                              updatedBy |-> calls[c].user])]_vars

\* the caller is the owner of the order's shop or an administrator
MayUpdateOrder(u, o) ==
    shopOwner[orderShop[o]] = u \/ userType[u] = "ADMIN"

\* C23 as stated: every request of a caller who is neither the owner of the
\* order's shop nor an administrator is answered with 403.
C23_OtherCallersGet403 ==
    \A u \in Users, o \in Orders, status \in StatusInputs :
        ~MayUpdateOrder(u, o)
        => updateOrderStatus_refusal(u, o, status).code = 403

\* C23 as amended: an updateOrderStatus call is in flight only for a caller
\* who is the owner of the order's shop or an administrator; the request of
\* any other caller is refused with 403, or with 400 when its status value
\* is not a valid one, and the step that refuses a request leaves orders,
\* stock and wallets unchanged.
C23_OnlyOwnerOrAdminTransitions ==
    [][/\ \A c \in Calls :
             calls'[c].pc \in {"uo_effect", "uo_credit", "uo_update"}
             => MayUpdateOrder(calls'[c].user, calls'[c].order)
       /\ \A u \in Users, o \in Orders, status \in StatusInputs :
             ~MayUpdateOrder(u, o)
             => updateOrderStatus_refusal(u, o, status).code
                   = (IF status \in validStatuses THEN 403 ELSE 400)
       /\ (/\ lastResponse' # lastResponse
           /\ lastResponse'.kind = "updateOrderStatus"
           /\ lastResponse'.code \in {400, 403})
          => UNCHANGED <<orders, stock, shops>>]_vars

C23_Witness ==
    /\ lastResponse.kind = "updateOrderStatus"
    /\ lastResponse.code = 403
    /\ orders["o1"].status = "shipped"

\* the call is a payment callback, of either version, that writes the order
\* and sends its response in this step
CallbackStep(c) == calls[c].pc \in {"hz_save", "hz2_save"} /\ Answers(c)

\* the terminal payment status that the callback of call c reports: the
\* first version knows completed only
Reported(c) ==
    IF calls[c].pc = "hz2_save"
    THEN MapPaymentStatus(calls[c].payment_status, calls[c].orderDoc)[1]
    ELSE IF calls[c].payment_status # None
            /\ toUpperCase(calls[c].payment_status) = "COMPLETED"
    THEN "completed"
    ELSE None

\* C24: a payment callback that reports the terminal payment status
\* (completed, failed) that the order already records changes no field of
\* the order, its fulfillment status included, and answers 200.
C24_CallbackIdempotent ==
    [][\A c \in Calls :
          (/\ CallbackStep(c)
           /\ Reported(c) \in {"completed", "failed"}
           /\ Reported(c) = orders[calls[c].order].paymentStatus)
          => orders' = orders /\ lastResponse'.code = 200]_vars

\* C25: a payment callback on an existing order that reports a payment
\* status other than the recorded one leaves the order with status pending
\* when it reports completed and with status cancelled when it reports
\* failed; when it reports a value that is not recognized the value is the
\* stored payment status, as it was sent, and order.status is as it was.
C25_CallbackStatusMapping ==
    [][\A c \in Calls :
          (CallbackStep(c) /\ calls[c].payment_status # None)
          => LET o == calls[c].order
                 value == calls[c].payment_status
                 upper == toUpperCase(value)
                 recorded == orders[o].paymentStatus
             IN  /\ (upper = "COMPLETED" /\ recorded # "completed")
                       => orders'[o].status = "pending"
                 /\ (upper = "FAILED" /\ recorded # "failed")
                       => orders'[o].status = "cancelled"
                 /\ upper \notin {"COMPLETED", "FAILED", "PENDING"}
                       => /\ orders'[o].paymentStatus = value
                          /\ orders'[o].status = orders[o].status]_vars

\* C26: every response of the payment callback handler has HTTP status
\* 200.
C26_CallbackAlwaysAnswers200 ==
    lastResponse.kind \in {"handleZenopayCallback", "handleZenopayCallback2"}
    => lastResponse.code = 200

\* C27: a payment callback whose transaction id matches no order is
\* answered with 200, whatever else it carries, and the step that answers
\* that the order was not found changes no order, no wallet and no stock.
C27_UnknownTransactionAccepted ==
    [][/\ \A apiKey \in ApiKeyInputs, order_id \in TransactionIdInputs :
             (order_id # None /\ OrderOfTransaction(order_id) = None)
             => /\ handleZenopayCallback_refusal(apiKey, order_id).code
                      = 200
                /\ handleZenopayCallback2_refusal(order_id).code = 200
       /\ (/\ lastResponse' # lastResponse
           /\ lastResponse'.error = "Order not found"
           /\ lastResponse'.code = 200)
          => UNCHANGED <<orders, shops, stock>>]_vars

\* C28: a step that writes a shop's wallet from a document that is no
\* longer what the database stores (the shop changed after the call read
\* it) is rejected: it leaves the stored shop as it is.
C28_NoStaleWalletWrite ==
    [][\A c \in Calls :
          /\ (CreditStep(c)
                 /\ calls[c].shopDoc # shops[orderShop[calls[c].order]])
             => shops' = shops
          /\ (ReserveStep(c) /\ calls[c].shopDoc # shops[calls[c].shop])
             => shops' = shops
          /\ ((BurnStep(c) \/ ReleaseStep(c))
                 /\ calls[c].shopDoc # shops[calls[c].row.shop])
             => shops' = shops]_vars

\* C29: the step in which an approval or a rejection writes the wallet
\* writes nothing when the request's amount is more than the shop's
\* lockedBalance: no lockedBalance below zero is stored.
C29_DecisionNeedsLockedFunds ==
    [][\A c \in Calls :
          ((BurnStep(c) \/ ReleaseStep(c))
             /\ calls[c].row.amount
                   > shops[calls[c].row.shop].lockedBalance)
          => shops' = shops /\ withdrawals' = withdrawals]_vars

\* C30: what a caller who may not act on the target is answered does not
\* depend on whether the id exists: a caller who is neither the owner of
\* any order's shop nor an administrator gets from updateOrderStatus the
\* same answer for an order and for an id that no order has, and a caller
\* who is not an administrator gets from updateWithdrawalStatus the same
\* answer for a request row and for an id that no row has.
C30_UnauthorizedAnswerHidesExistence ==
    /\ \A u \in Users, status \in StatusInputs :
          \A o \in Orders, missing \in OrderIds \ Orders :
             (userType[u] # "ADMIN"
                /\ \A p \in Orders : shopOwner[orderShop[p]] # u)
             => updateOrderStatus_refusal(u, o, status)
                   = updateOrderStatus_refusal(u, missing, status)
    /\ \A status \in {"approved", "rejected", "pending"} :
          \A id \in 1..Len(withdrawals),
             missing \in WithdrawalIds \ (1..Len(withdrawals)) :
             (\E u \in Users : userType[u] # "ADMIN")
             => updateWithdrawalStatus_refusal(id, status)
                   = updateWithdrawalStatus_refusal(missing, status)

\* C31: a failure of the notification dispatch neither blocks nor undoes
\* the status change already written, and the caller is still told of
\* success: a step of updateOrderStatus or of the payment callback that
\* writes the order and answers, answers with 200 and leaves the wallet of
\* every shop as the handler's earlier steps made it.
C31_DispatchFailureStillSucceeds ==
    [][\A c \in Calls :
          (calls[c].pc \in {"uo_update", "hz_save", "hz2_save"}
           /\ Answers(c) /\ orders' # orders)
          => lastResponse'.code = 200 /\ shops' = shops]_vars

\* the requests that the caller u may be shown under the status filter
VisibleTo(u, status) ==
    {id \in DOMAIN withdrawals :
        /\ status = None \/ withdrawals[id].status = status
        /\ userType[u] = "ADMIN" \/ shopOwner[withdrawals[id].shop] = u}

\* the ids that getWithdrawals returns to u
Returned(u, status, page, limit) ==
    LET data == getWithdrawals_data(u, status, page, limit)
    IN  {data.withdrawals[i] : i \in DOMAIN data.withdrawals}

\* getWithdrawals answers u with a list: u is an ADMIN or owns a shop
Listed(u) == userType[u] = "ADMIN" \/ ShopOwnedBy(u) # None

\* a step of getWithdrawals
ListStep ==
    /\ \A c \in Calls : Free(c) /\ Free(c)'
    /\ lastResponse'.kind = "getWithdrawals"

\* C32 as stated: getWithdrawals returns to an ADMIN every request that
\* matches the status filter, and to any other caller only requests of the
\* shop that the caller owns.
C32_ListsAllMatching ==
    \A u \in Users, status \in StatusFilterInputs, page \in PageInputs,
       limit \in LimitInputs :
       Listed(u) =>
          /\ userType[u] = "ADMIN" =>
                 Returned(u, status, page, limit) = VisibleTo(u, status)
          /\ Returned(u, status, page, limit) \subseteq VisibleTo(u, status)

\* C32: getWithdrawals changes nothing that is stored and returns the
\* requested page, newest first, of the requests that match the status
\* filter: for an ADMIN of all shops, for any other caller of the shop the
\* caller owns only; totalRecords counts all of them and the pages together
\* hold all of them.
C32_ListsPageOfVisible ==
    /\ [](\A u \in Users, status \in StatusFilterInputs :
             LET visible == VisibleTo(u, status)
             IN  Listed(u) =>
                 /\ \A page \in PageInputs, limit \in LimitInputs :
                       LET data == getWithdrawals_data(u, status, page, limit)
                           rows == data.withdrawals
                           left == Cardinality(visible) - (page - 1) * limit
                       IN  /\ {rows[i] : i \in DOMAIN rows} \subseteq visible
                           /\ data.totalRecords = Cardinality(visible)
                           /\ Len(rows) = IF left < 0 THEN 0
                                          ELSE IF left < limit THEN left
                                          ELSE limit
                           /\ \A i, j \in DOMAIN rows :
                                 i < j => rows[i] > rows[j]
                 /\ \A limit \in LimitInputs, id \in visible :
                       \E p \in 1..Len(withdrawals) :
                          id \in Returned(u, status, p, limit))
    /\ [][ListStep => UNCHANGED <<shops, withdrawals, orders, stock>>]_vars

\* two shops have a pending request each and a caller has been shown a
\* list that holds one of the two
C32_Witness ==
    /\ lastResponse.kind = "getWithdrawals"
    /\ lastResponse.code = 200
    /\ lastResponse.totalRecords = 1
    /\ Len(withdrawals) = 2
    /\ withdrawals[1].shop # withdrawals[2].shop
    /\ \A id \in DOMAIN withdrawals : withdrawals[id].status = "pending"

\* C33: every invocation of the payment callback that has reached the
\* status check with the payment processor eventually answers its caller,
\* also when the processor never answers.
C33_CallbackEventuallyAnswers ==
    \A c \in Calls : (calls[c].pc = "hz_save") ~> Free(c)

\* the sum of the amounts of the requests of shop s with a status in statuses
RECURSIVE SumOfFirst(_, _, _)
SumOfFirst(n, s, statuses) ==
    IF n = 0 THEN 0
    ELSE SumOfFirst(n - 1, s, statuses)
         + (IF withdrawals[n].shop = s /\ withdrawals[n].status \in statuses
            THEN withdrawals[n].amount ELSE 0)

SumOfRequests(s, statuses) == SumOfFirst(Len(withdrawals), s, statuses)

\* no request is being handled
Quiescent == \A c \in Calls : Free(c)

\* C34: whenever no request is being handled, the lockedBalance of every
\* shop is the sum of the amounts of its pending withdrawal requests.
C34_LockedIsSumOfPending ==
    Quiescent =>
       \A s \in DOMAIN shops :
          shops[s].lockedBalance = SumOfRequests(s, {"pending"})

\* the revenue of the orders of shop s that have been delivered
RECURSIVE RevenueOf(_, _)
RevenueOf(os, s) ==
    IF os = {} THEN 0
    ELSE LET o == CHOOSE x \in os : TRUE
         IN  RevenueOf(os \ {o}, s)
             + (IF orderShop[o] = s /\ orders[o].status = "delivered"
                THEN orderRevenue(o) ELSE 0)

CreditedRevenue(s) == RevenueOf(Orders, s)

\* C35: whenever no request is being handled, the revenue of the delivered
\* orders of every shop is its currentBalance plus its lockedBalance plus
\* the amounts of its approved withdrawal requests, so that what has been
\* approved for payout never exceeds what has been credited.
C35_LedgerIdentity ==
    Quiescent =>
       \A s \in DOMAIN shops :
          /\ CreditedRevenue(s) =
                Total(s) + SumOfRequests(s, {"approved"})
          /\ SumOfRequests(s, {"approved"}) <= CreditedRevenue(s)

\* C36: the credit of the wallet and the move of the order to delivered
\* are stored together: in no state has the wallet of a shop been credited
\* for an order whose stored status is still shipped.
C36_CreditedOnlyWhenDelivered ==
    \A o \in Orders :
       orders[o].status = "shipped"
          => shops[orderShop[o]].totalRevenue < orderRevenue(o)

\* the withdrawal.save() of a decision writes the row of call c
DecisionRowStep(c) ==
    /\ calls[c].pc = "uw_save"
    /\ ~calls[c].rowSaved
    /\ Free(c)' \/ calls'[c].rowSaved
    /\ WithdrawalRequestValid(ProcessRequest(calls[c].row, calls[c].status,
                                             calls[c].user,
                                             calls[c].adminNote))

\* C37: in every state a withdrawal request has processedBy and processedAt
\* set exactly when its status is approved or rejected, and the two fields
\* are written only by the step that takes the stored request out of
\* pending.
C37_ProcessedStampedOnLeavingPending ==
    /\ [](\A id \in DOMAIN withdrawals :
             LET decided == withdrawals[id].status \in {"approved", "rejected"}
             IN  /\ (withdrawals[id].processedBy # None) = decided
                 /\ withdrawals[id].processedAt = decided)
    /\ [][\A c \in Calls, id \in DOMAIN withdrawals :
             /\ (\/ withdrawals'[id].processedBy # withdrawals[id].processedBy
                 \/ withdrawals'[id].processedAt # withdrawals[id].processedAt)
                   => \E d \in Calls : DecisionRowStep(d) /\ calls[d].id = id
             /\ DecisionRowStep(c) =>
                   /\ withdrawals[calls[c].id].status = "pending"
                   /\ withdrawals'[calls[c].id].status # "pending"]_vars

\* C38: no step changes the amount, the shop, the user or the payout
\* destination (type and details of paymentDetails) of a withdrawal request
\* that exists: a decision by updateWithdrawalStatus leaves them as they
\* were created.
C38_RequestSnapshotKept ==
    [][\A id \in DOMAIN withdrawals :
          /\ id \in DOMAIN withdrawals'
          /\ \A f \in {"amount", "shop", "user", "type", "details"} :
                withdrawals'[id][f] = withdrawals[id][f]]_vars

\* a request has been decided and still names its shop, its requester,
\* its amount and its destination
C38_Witness ==
    \E id \in DOMAIN withdrawals :
       /\ withdrawals[id].status \in {"approved", "rejected"}
       /\ withdrawals[id].processedBy = "admin"
       /\ withdrawals[id].user = shopOwner[withdrawals[id].shop]
       /\ withdrawals[id].amount > 0
       /\ withdrawals[id].details = FullDetails

\* a step of handleZenopayCallback (either version) or of
\* checkPaymentStatus by call c: its checks, or the step after them
PaymentCheckStep(c) ==
    LET pcs == {"hz_save", "hz2_save", "cp_save"}
        kinds == {"handleZenopayCallback", "handleZenopayCallback2",
                  "checkPaymentStatus"}
    IN  \/ calls[c].pc \in pcs
        \/ calls'[c].pc \in pcs
        \/ /\ Free(c) /\ Free(c)'
           /\ lastResponse' # lastResponse
           /\ lastResponse'.kind \in kinds

\* C39: no step of the payment callback or of the manual payment status
\* check changes the wallet of a shop: currentBalance and lockedBalance of
\* every shop are after the step what they were before it.
C39_PaymentStepsKeepWallets ==
    [][\A c \in Calls :
          PaymentCheckStep(c) =>
             \A s \in DOMAIN shops :
                /\ s \in DOMAIN shops'
                /\ shops'[s].currentBalance = shops[s].currentBalance
                /\ shops'[s].lockedBalance = shops[s].lockedBalance]_vars

\* a callback has completed the payment of an order and the wallet of its
\* shop is still empty
C39_Witness ==
    /\ lastResponse.kind \in {"handleZenopayCallback", "handleZenopayCallback2"}
    /\ lastResponse.code = 200
    /\ lastResponse.error = None
    /\ orders["o1"].paymentStatus = "completed"
    /\ orders["o1"].status = "pending"
    /\ shops["s1"].currentBalance = 0
    /\ shops["s1"].lockedBalance = 0

====
